---- MODULE Spec2Model ----
(***************************************************************************)
(* A model of the factor-based portfolio optimizer: compute_factors and    *)
(* rank_stocks (factor_model.py), optimize_portfolio (optimizer.py) and    *)
(* run_backtest (backtest.py).  Each function is a small state machine     *)
(* whose steps are the statements of the function; its arguments are drawn *)
(* from bounded sets in the initial state.                                 *)
(***************************************************************************)
EXTENDS Integers, Sequences, FiniteSets, TLC

(***************************************************************************)
(* Bounds of the model.                                                    *)
(***************************************************************************)
\* calendar days of the price history: 1..NumDays
NumDays == 6
\* prices are drawn from 1..MaxPrice
MaxPrice == 2
\* calendar days in a month of the model's calendar (month ends: MonthLen, 2*MonthLen, ...)
MonthLen == 2
\* target weights are multiples of 1/WeightDen
WeightDen == 2

\* the largest selection handed to the optimizer
MaxSel == 2
\* the solver's weights are multiples of 1/GridDen
GridDen == 4
\* expected returns are drawn from 0..MaxMu
MaxMu == 1
\* rank_stocks is asked for 1..MaxTopN stocks
MaxTopN == 4
\* rank_stocks is called at most MaxCalls times on one DataFrame
MaxCalls == 2
\* compute_factors sees 2..MaxRows rows of prices
MaxRows == 3
\* momentum_window is drawn from 1..MaxWindow
MaxWindow == 2

\* 'QE' = quarterly: a quarter is three months
MonthsPerQuarter == 3

Assets == {"A", "B"}
Days == 1..NumDays

(***************************************************************************)
(* Floating-point values, modelled as exact rationals n/d in lowest terms  *)
(* with d > 0; d = 0 marks the non-finite values: NaN (n = 0) and the      *)
(* infinities (n = 1, n = -1).                                             *)
(***************************************************************************)
Abs(x) == IF x < 0 THEN -x ELSE x

Sign(x) == IF x < 0 THEN -1 ELSE IF x > 0 THEN 1 ELSE 0

RECURSIVE Gcd(_, _)
Gcd(a, b) == IF b = 0 THEN a ELSE Gcd(b, a % b)

NaN == [n |-> 0, d |-> 0]

IsNaN(x) == x.d = 0 /\ x.n = 0

IsFinite(x) == x.d > 0

\* n/d as a float: x/0 is an infinity, 0/0 is NaN
Rat(n, d) ==
    IF d = 0 THEN [n |-> Sign(n), d |-> 0]
    ELSE LET g == Gcd(Abs(n), Abs(d))
         IN  [n |-> (Sign(d) * n) \div g, d |-> Abs(d) \div g]

Zero == Rat(0, 1)

One == Rat(1, 1)

RAdd(x, y) ==
    IF IsFinite(x) /\ IsFinite(y) THEN Rat(x.n * y.d + y.n * x.d, x.d * y.d)
    ELSE IF IsNaN(x) \/ IsNaN(y) THEN NaN
    ELSE IF IsFinite(x) THEN y
    ELSE IF IsFinite(y) THEN x
    ELSE IF x.n = y.n THEN x ELSE NaN

RNeg(x) == [n |-> -x.n, d |-> x.d]

RSub(x, y) == RAdd(x, RNeg(y))

RMul(x, y) ==
    IF IsFinite(x) /\ IsFinite(y) THEN Rat(x.n * y.n, x.d * y.d)
    ELSE IF IsNaN(x) \/ IsNaN(y) THEN NaN
    ELSE IF x.n = 0 \/ y.n = 0 THEN NaN
    ELSE [n |-> Sign(x.n) * Sign(y.n), d |-> 0]

RDiv(x, y) ==
    IF IsFinite(x) /\ IsFinite(y) THEN Rat(x.n * y.d, x.d * y.n)
    ELSE IF IsNaN(x) \/ IsNaN(y) THEN NaN
    ELSE IF IsFinite(x) THEN Zero
    ELSE IF IsFinite(y) THEN [n |-> x.n * (IF y.n < 0 THEN -1 ELSE 1), d |-> 0]
    ELSE NaN

\* x < y on finite values
RLess(x, y) == x.n * y.d < y.n * x.d

RLeq(x, y) == x.n * y.d <= y.n * x.d

(***************************************************************************)
(* Date indexes: a DatetimeIndex is a set of calendar days, read in        *)
(* ascending order.                                                        *)
(***************************************************************************)
MinOf(S) == CHOOSE x \in S : \A y \in S : x <= y

MaxOf(S) == CHOOSE x \in S : \A y \in S : y <= x

\* the date before d in the index (d is not the first)
PrevDate(idx, d) == MaxOf({x \in idx : x < d})

(***************************************************************************)
(* run_backtest (backtest.py).                                             *)
(*                                                                         *)
(* A price frame is [cols : the tickers that have a column,                *)
(*                   index: the dates that have a row,                     *)
(*                   px   : ticker -> date -> price], a price being a      *)
(* positive integer, or 0 for a missing price (NaN).                       *)
(***************************************************************************)
VARIABLES
    price_in,           \* the caller's price_df argument
    weights,            \* the weights argument: ticker -> weight
    rebalance_freq,     \* the rebalance_freq argument
    bt_pc,              \* position in run_backtest
    price_df,           \* the local price_df, after price_df[tickers].dropna()
    weight_df,          \* date -> ticker -> weight or NaN
    portfolio_returns,  \* date -> return
    result,             \* date -> [PortfolioValue, DailyReturn]
    bt_err              \* the exception raised, "" when none

bt_vars == <<price_in, weights, rebalance_freq, bt_pc, price_df, weight_df,
             portfolio_returns, result, bt_err>>

\* optimize_portfolio (optimizer.py)
VARIABLES
    tickers,            \* ranked_stocks.index.tolist()
    mu,                 \* expected return per position of tickers
    min_weight,         \* the min_weight argument
    max_weight,         \* the max_weight argument
    risk_aversion,      \* the risk_aversion argument
    opt_pc,             \* position in optimize_portfolio
    solver_calls,       \* how many times prob.solve() was entered
    status,             \* prob.status after the solve, "" before
    w_value,            \* w.value after the solve: grid units per position, <<>> for None
    opt_out,            \* the returned dict: ticker -> weight
    opt_err             \* the exception raised, "" when none

opt_vars == <<tickers, mu, min_weight, max_weight, risk_aversion, opt_pc,
              solver_calls, status, w_value, opt_out, opt_err>>

\* rank_stocks (factor_model.py)
VARIABLES
    factor_scores,      \* the DataFrame object the caller passes, as it is now
    factor_orig,        \* the same DataFrame as it was before the first call
    top_n,              \* the top_n argument
    rk_calls,           \* calls of rank_stocks on factor_scores so far
    ranked,             \* the value the last call returned
    ranked_first        \* the value the first call returned

rk_vars == <<factor_scores, factor_orig, top_n, rk_calls, ranked, ranked_first>>

\* compute_factors (factor_model.py)
VARIABLES
    fm_prices,          \* price_df: ticker -> sequence of daily prices
    fm_pe,              \* fundamentals_df["trailingPE"]: ticker -> value or NaN
    momentum_window,    \* the momentum_window argument
    fm_pc,              \* position in compute_factors
    factor_df,          \* the raw factor frame: ticker -> factor -> value
    normalized_factors  \* the returned frame: ticker -> factor -> "finite" or "NaN"

fm_vars == <<fm_prices, fm_pe, momentum_window, fm_pc, factor_df,
             normalized_factors>>

vars == <<bt_vars, opt_vars, rk_vars, fm_vars>>

Empty == <<>>

\* the resting state of each function, when a specification does not run it
BtIdle ==
    /\ price_in = Empty /\ weights = Empty /\ rebalance_freq = ""
    /\ bt_pc = "idle" /\ price_df = Empty /\ weight_df = Empty
    /\ portfolio_returns = Empty /\ result = Empty /\ bt_err = ""

OptIdle ==
    /\ tickers = Empty /\ mu = Empty /\ min_weight = NaN /\ max_weight = NaN
    /\ risk_aversion = NaN /\ opt_pc = "idle" /\ solver_calls = 0
    /\ status = "" /\ w_value = Empty /\ opt_out = Empty /\ opt_err = ""

RkIdle ==
    /\ factor_scores = Empty /\ factor_orig = Empty /\ top_n = 0
    /\ rk_calls = 0 /\ ranked = Empty /\ ranked_first = Empty

FmIdle ==
    /\ fm_prices = Empty /\ fm_pe = Empty /\ momentum_window = 0
    /\ fm_pc = "idle" /\ factor_df = Empty /\ normalized_factors = Empty

Freqs == {"ME", "QE"}

\* the calendar days of one period of the frequency
PeriodLen(freq) == IF freq = "ME" THEN MonthLen ELSE MonthsPerQuarter * MonthLen

\* the period-end label of the bin that holds date d
PeriodEnd(freq, d) == ((d + PeriodLen(freq) - 1) \div PeriodLen(freq)) * PeriodLen(freq)

\* norm_prices.resample(rebalance_freq).first().index: one label per period
\* from the period of the first date to the period of the last
ResampleIndex(idx, freq) ==
    IF idx = {} THEN {}
    ELSE {p \in PeriodEnd(freq, MinOf(idx))..PeriodEnd(freq, MaxOf(idx)) :
              p % PeriodLen(freq) = 0}

\* tickers = list(weights.keys())
Tickers(w) == DOMAIN w

\* price_df[tickers] without the dropna(): every row is kept
DropNaKeepAll(frame, tks) ==
    [cols  |-> tks,
     index |-> frame.index,
     px    |-> [a \in tks |-> [d \in frame.index |-> frame.px[a][d]]]]

\* price_df[tickers].dropna(): the rows where every selected ticker has a price
DropNa(frame, tks) ==
    LET keep == {d \in frame.index : \A a \in tks : frame.px[a][d] # 0}
    IN  [cols  |-> tks,
         index |-> keep,
         px    |-> [a \in tks |-> [d \in keep |-> frame.px[a][d]]]]

NaNRow(tks) == [a \in tks |-> NaN]

\* weight_df = DataFrame(index=periodic_prices.index, columns=tickers);
\* weight_df.loc[date] = weights for every label
WeightRows(labels, w) == [p \in labels |-> w]

\* .reindex(price_df.index): the rows of the new index, NaN where the old
\* index has no such label
Reindex(rows, idx, tks) ==
    [d \in idx |-> IF d \in DOMAIN rows THEN rows[d] ELSE NaNRow(tks)]

\* .ffill(): a NaN takes the last value above it, when there is one
FFill(rows, tks) ==
    [d \in DOMAIN rows |->
        [a \in tks |->
            LET seen == {x \in DOMAIN rows : x <= d /\ ~IsNaN(rows[x][a])}
            IN  IF seen = {} THEN NaN ELSE rows[MaxOf(seen)][a]]]

\* weight_df.ffill().reindex(price_df.index).ffill()
WeightFrame(idx, w, freq) ==
    FFill(Reindex(FFill(WeightRows(ResampleIndex(idx, freq), w), Tickers(w)),
                  idx, Tickers(w)),
          Tickers(w))

\* price_df.pct_change(): NaN on the first row
PctChange(frame) ==
    [d \in frame.index |->
        [a \in frame.cols |->
            IF d = MinOf(frame.index) THEN NaN
            ELSE LET q == frame.px[a][PrevDate(frame.index, d)]
                 IN  Rat(frame.px[a][d] - q, q)]]

\* .fillna(0)
FillNa0(rows) ==
    [d \in DOMAIN rows |->
        [a \in DOMAIN rows[d] |-> IF IsNaN(rows[d][a]) THEN Zero ELSE rows[d][a]]]

\* .sum(axis=1): NaN entries are skipped, a row of NaN sums to 0
RECURSIVE SumSkipNa(_, _)
SumSkipNa(row, S) ==
    IF S = {} THEN Zero
    ELSE LET a == CHOOSE x \in S : TRUE
         IN  IF IsNaN(row[a]) THEN SumSkipNa(row, S \ {a})
             ELSE RAdd(row[a], SumSkipNa(row, S \ {a}))

\* (daily_returns * weight_df).sum(axis=1)
PortfolioReturns(daily, wdf) ==
    [d \in DOMAIN daily |->
        SumSkipNa([a \in DOMAIN daily[d] |-> RMul(daily[d][a], wdf[d][a])],
                  DOMAIN daily[d])]

RECURSIVE ProdOver(_, _)
ProdOver(f, S) ==
    IF S = {} THEN One
    ELSE LET d == MaxOf(S) IN RMul(ProdOver(f, S \ {d}), f[d])

\* .cumprod()
CumProd(f) == [d \in DOMAIN f |-> ProdOver(f, {x \in DOMAIN f : x <= d})]

\* portfolio_returns.cumprod(), without the 1 +
EquityCurveNoBase(pr) == CumProd(pr)

\* (1 + portfolio_returns).cumprod()
EquityCurve(pr) == CumProd([d \in DOMAIN pr |-> RAdd(One, pr[d])])

\* price of the series (start, stride) on day d
SeriesPrice(s, k, d) == 1 + ((s - 1 + k * (d - 1)) % MaxPrice)

WeightUnits == 1..WeightDen

\* the weight vectors: every ticker a multiple of 1/WeightDen, summing to one
WeightVectors ==
    {w \in UNION {[K -> WeightUnits] : K \in (SUBSET Assets) \ {{}}} :
        SumSkipNa([a \in DOMAIN w |-> Rat(w[a], 1)], DOMAIN w) = Rat(WeightDen, 1)}

BtInit ==
    /\ \E cols \in {Assets, {"A"}}, closed \in 0..NumDays,
          sA \in 1..MaxPrice, kA \in 0..(MaxPrice - 1),
          sB \in 1..MaxPrice, kB \in 0..(MaxPrice - 1),
          ma \in Assets, md \in 0..NumDays :
          price_in =
              [cols  |-> cols,
               index |-> Days \ {closed},
               px    |-> [a \in cols |-> [d \in Days \ {closed} |->
                             IF a = ma /\ d = md THEN 0
                             ELSE IF a = "A" THEN SeriesPrice(sA, kA, d)
                             ELSE SeriesPrice(sB, kB, d)]]]
    /\ \E w \in WeightVectors :
          weights = [a \in DOMAIN w |-> Rat(w[a], WeightDen)]
    /\ rebalance_freq \in Freqs
    /\ bt_pc = "start"
    /\ price_df = Empty
    /\ weight_df = Empty
    /\ portfolio_returns = Empty
    /\ result = Empty
    /\ bt_err = ""

\* lines 33-34: price_df[tickers] raises KeyError for a ticker with no column
Select ==
    /\ bt_pc = "start"
    /\ IF Tickers(weights) \subseteq price_in.cols
       THEN /\ price_df' = DropNa(price_in, Tickers(weights))
            /\ bt_pc' = "selected"
            /\ bt_err' = ""
       ELSE /\ price_df' = price_df
            /\ bt_pc' = "raised"
            /\ bt_err' = "KeyError"
    /\ UNCHANGED <<price_in, weights, rebalance_freq, weight_df,
                   portfolio_returns, result>>
    /\ UNCHANGED <<opt_vars, rk_vars, fm_vars>>

\* line 37: price_df.iloc[0] raises IndexError on a frame with no rows
Normalize ==
    /\ bt_pc = "selected"
    /\ IF price_df.index = {}
       THEN bt_pc' = "raised" /\ bt_err' = "IndexError"
       ELSE bt_pc' = "normalized" /\ bt_err' = ""
    /\ UNCHANGED <<price_in, weights, rebalance_freq, price_df, weight_df,
                   portfolio_returns, result>>
    /\ UNCHANGED <<opt_vars, rk_vars, fm_vars>>

\* lines 40-46
BuildWeights ==
    /\ bt_pc = "normalized"
    /\ weight_df' = WeightFrame(price_df.index, weights, rebalance_freq)
    /\ bt_pc' = "weighted"
    /\ UNCHANGED <<price_in, weights, rebalance_freq, price_df,
                   portfolio_returns, result, bt_err>>
    /\ UNCHANGED <<opt_vars, rk_vars, fm_vars>>

\* lines 49-52
ComputeReturns ==
    /\ bt_pc = "weighted"
    /\ portfolio_returns' = PortfolioReturns(FillNa0(PctChange(price_df)), weight_df)
    /\ bt_pc' = "returns"
    /\ UNCHANGED <<price_in, weights, rebalance_freq, price_df, weight_df,
                   result, bt_err>>
    /\ UNCHANGED <<opt_vars, rk_vars, fm_vars>>

\* lines 55-63
Cumulate ==
    /\ bt_pc = "returns"
    /\ result' = LET eq == EquityCurve(portfolio_returns)
                 IN  [d \in DOMAIN portfolio_returns |->
                         [PortfolioValue |-> eq[d],
                          DailyReturn    |-> portfolio_returns[d]]]
    /\ bt_pc' = "done"
    /\ UNCHANGED <<price_in, weights, rebalance_freq, price_df, weight_df,
                   portfolio_returns, bt_err>>
    /\ UNCHANGED <<opt_vars, rk_vars, fm_vars>>

BtNext == Select \/ Normalize \/ BuildWeights \/ ComputeReturns \/ Cumulate

InitBacktest == BtInit /\ OptIdle /\ RkIdle /\ FmIdle

SpecBacktest == InitBacktest /\ [][BtNext]_vars

\* the whole of run_backtest on a frame that raises nothing
BacktestResult(frame, w, freq) ==
    LET sel == DropNa(frame, Tickers(w))
        pr  == PortfolioReturns(FillNa0(PctChange(sel)),
                                WeightFrame(sel.index, w, freq))
        eq  == EquityCurve(pr)
    IN  [d \in sel.index |-> [PortfolioValue |-> eq[d], DailyReturn |-> pr[d]]]

\* the dates on which every ticker of the weight vector has a price
CoveredDates == {d \in price_in.index :
                    \A a \in Tickers(weights) \cap price_in.cols : price_in.px[a][d] # 0}

MissingColumn == ~(Tickers(weights) \subseteq price_in.cols)

MissingCoverage == MissingColumn \/ CoveredDates # price_in.index

(***************************************************************************)
(* C1: the effective weight of every asset on every trading day of the     *)
(* simulated window, the days before the first rebalance anchor included,  *)
(* is defined and equal to the asset's target weight.                      *)
(***************************************************************************)
C1_WeightEqualsTargetEveryDay ==
    bt_pc \in {"weighted", "returns", "done"} =>
        \A d \in price_df.index : \A a \in Tickers(weights) :
            weight_df[d][a] = weights[a]

(***************************************************************************)
(* C2: for a fixed price history and weight vector, run_backtest returns   *)
(* the same DailyReturn and PortfolioValue series for every rebalance      *)
(* schedule.                                                               *)
(***************************************************************************)
C2_ScheduleHasNoEffect ==
    bt_pc = "done" =>
        \A f \in Freqs : result = BacktestResult(price_in, weights, f)

(***************************************************************************)
(* C3: in the returned equity curve DailyReturn on the first date is 0 and *)
(* PortfolioValue on the first date is exactly 1; on every later date t    *)
(* PortfolioValue[t] = PortfolioValue[t-1] * (1 + DailyReturn[t]).         *)
(***************************************************************************)
C3_EquityCurveCompounds ==
    bt_pc = "done" =>
        LET idx == DOMAIN result
            t0  == MinOf(idx)
        IN  /\ idx = price_df.index
            /\ result[t0].DailyReturn = Zero
            /\ result[t0].PortfolioValue = One
            /\ \A t \in idx \ {t0} :
                   result[t].PortfolioValue =
                       RMul(result[PrevDate(idx, t)].PortfolioValue,
                            RAdd(One, result[t].DailyReturn))

\* a finished run of at least three dates whose value moved away from 1 twice
C3_Witness ==
    /\ bt_pc = "done"
    /\ \E t, u \in DOMAIN result :
           /\ t < u
           /\ result[t].DailyReturn # Zero
           /\ result[u].DailyReturn # Zero
           /\ result[u].PortfolioValue # One
           /\ result[u].PortfolioValue # result[t].PortfolioValue

AssetNames == <<"A", "B", "C", "D", "E">>

None == <<>>

RECURSIVE SumSeq(_, _)
SumSeq(f, i) == IF i = 0 THEN Zero ELSE RAdd(SumSeq(f, i - 1), f[i])

Weight(k) == Rat(k, GridDen)

\* Sigma = np.identity(n) when no covariance matrix is given
Identity(n) == [i \in 1..n |-> [j \in 1..n |-> IF i = j THEN One ELSE Zero]]

\* cp.quad_form(w, Sigma)
QuadForm(k, Sigma) ==
    LET n == Len(k)
    IN  SumSeq([i \in 1..n |->
                   SumSeq([j \in 1..n |->
                              RMul(RMul(Weight(k[i]), Sigma[i][j]), Weight(k[j]))], n)],
               n)

\* mu @ w - risk_aversion * cp.quad_form(w, Sigma)
Objective(k, m, Sigma, lam) ==
    RSub(SumSeq([i \in 1..Len(k) |-> RMul(m[i], Weight(k[i]))], Len(k)),
         RMul(lam, QuadForm(k, Sigma)))

\* the constraints: cp.sum(w) == 1, w >= min_weight, w <= max_weight
Satisfies(k, lo, hi) ==
    /\ SumSeq([i \in 1..Len(k) |-> Weight(k[i])], Len(k)) = One
    /\ \A i \in 1..Len(k) : RLeq(lo, Weight(k[i])) /\ RLeq(Weight(k[i]), hi)

FeasibleSet(n, lo, hi) == {k \in [1..n -> 0..GridDen] : Satisfies(k, lo, hi)}

\* the feasible vectors on which the objective is largest
ArgMax(F, m, Sigma, lam) ==
    LET vals == {Objective(k, m, Sigma, lam) : k \in F}
        best == CHOOSE v \in vals : \A u \in vals : RLeq(u, v)
    IN  {k \in F : Objective(k, m, Sigma, lam) = best}

\* the iterates one grid unit away from k in one position
Neighbours(k) ==
    {[k EXCEPT ![i] = k[i] + e] : i \in 1..Len(k), e \in {-1, 1}}

\* prob.solve(): what the solver can leave behind.  A feasible problem ends
\* "optimal" with an optimum in w.value, or "optimal_inaccurate" with an
\* iterate near an optimum that need not satisfy the constraints; an
\* infeasible one ends "infeasible" or "infeasible_inaccurate" with w.value
\* None; a solver that breaks down makes solve() raise SolverError.
SolverOutcomes(n, m, Sigma, lam, lo, hi) ==
    LET F   == FeasibleSet(n, lo, hi)
        opt == IF F = {} THEN {} ELSE ArgMax(F, m, Sigma, lam)
    IN  {[status |-> "solver_error", value |-> None]}
        \cup (IF F = {}
              THEN {[status |-> st, value |-> None] :
                        st \in {"infeasible", "infeasible_inaccurate"}}
              ELSE {[status |-> "optimal", value |-> k] : k \in opt}
                   \cup {[status |-> "optimal_inaccurate", value |-> j] :
                            j \in UNION {Neighbours(k) : k \in opt}})

\* lines 66-70 without the raise: a w.value of None returns an empty dict
OutcomeNoRaise(tks, value) ==
    IF value = None
    THEN [err |-> "", out |-> Empty]
    ELSE [err |-> "",
          out |-> [a \in {tks[i] : i \in 1..Len(tks)} |->
                      Weight(value[CHOOSE i \in 1..Len(tks) : tks[i] = a])]]

\* lines 66-70: a w.value of None raises ValueError, anything else is
\* zipped with tickers into the returned dict
Outcome(tks, value) ==
    IF value = None
    THEN [err |-> "ValueError", out |-> Empty]
    ELSE [err |-> "",
          out |-> [a \in {tks[i] : i \in 1..Len(tks)} |->
                      Weight(value[CHOOSE i \in 1..Len(tks) : tks[i] = a])]]

RiskAversions == {Zero, Rat(1, 10), One}

OptInit ==
    /\ \E n \in 1..MaxSel :
          /\ tickers = SubSeq(AssetNames, 1, n)
          /\ mu \in [1..n -> {Rat(x, 1) : x \in 0..MaxMu}]
    /\ min_weight \in {Weight(k) : k \in 0..GridDen}
    /\ max_weight \in {Weight(k) : k \in 0..GridDen}
    /\ risk_aversion \in RiskAversions
    /\ opt_pc = "start"
    /\ solver_calls = 0
    /\ status = ""
    /\ w_value = None
    /\ opt_out = Empty
    /\ opt_err = ""

\* lines 37-63: the problem is built; nothing is checked or raised here
BuildProblem ==
    /\ opt_pc = "start"
    /\ opt_pc' = "built"
    /\ UNCHANGED <<tickers, mu, min_weight, max_weight, risk_aversion,
                   solver_calls, status, w_value, opt_out, opt_err>>
    /\ UNCHANGED <<bt_vars, rk_vars, fm_vars>>

\* line 64: prob.solve()
Solve ==
    /\ opt_pc = "built"
    /\ solver_calls' = solver_calls + 1
    /\ \E o \in SolverOutcomes(Len(tickers), mu, Identity(Len(tickers)),
                               risk_aversion, min_weight, max_weight) :
          /\ status' = o.status
          /\ w_value' = o.value
          /\ IF o.status = "solver_error"
             THEN opt_pc' = "raised" /\ opt_err' = "SolverError"
             ELSE opt_pc' = "solved" /\ opt_err' = ""
    /\ UNCHANGED <<tickers, mu, min_weight, max_weight, risk_aversion, opt_out>>
    /\ UNCHANGED <<bt_vars, rk_vars, fm_vars>>

\* lines 66-70
Finish ==
    /\ opt_pc = "solved"
    /\ LET o == Outcome(tickers, w_value)
       IN  /\ opt_err' = o.err
           /\ opt_out' = o.out
           /\ opt_pc' = IF o.err = "" THEN "returned" ELSE "raised"
    /\ UNCHANGED <<tickers, mu, min_weight, max_weight, risk_aversion,
                   solver_calls, status, w_value>>
    /\ UNCHANGED <<bt_vars, rk_vars, fm_vars>>

OptNext == BuildProblem \/ Solve \/ Finish

InitOptimizer == OptInit /\ BtIdle /\ RkIdle /\ FmIdle

SpecOptimizer == InitOptimizer /\ [][OptNext]_vars

\* n * min_weight > 1 or n * max_weight < 1
InfeasibleBounds ==
    LET n == Rat(Len(tickers), 1)
    IN  RLess(One, RMul(n, min_weight)) \/ RLess(RMul(n, max_weight), One)

OptFinished == opt_pc \in {"returned", "raised"}

C5_NoWeightsWithoutOptimum ==
    (OptFinished /\ status # "optimal") =>
        /\ opt_pc = "raised"
        /\ opt_out = Empty

(***************************************************************************)
(* C6: every returned weight vector has exactly the selected assets as its *)
(* keys, sums to one, and has every weight within [minWeight, maxWeight].  *)
(***************************************************************************)
C6_ReturnedWeightsFeasible ==
    opt_pc = "returned" =>
        /\ DOMAIN opt_out = {tickers[i] : i \in 1..Len(tickers)}
        /\ SumSkipNa(opt_out, DOMAIN opt_out) = One
        /\ \A a \in DOMAIN opt_out :
               RLeq(min_weight, opt_out[a]) /\ RLeq(opt_out[a], max_weight)

(***************************************************************************)
(* rank_stocks (factor_model.py).                                          *)
(*                                                                         *)
(* A DataFrame of scores is [index  : the tickers, in row order,           *)
(*                           columns: the column names, in order,          *)
(*                           val    : ticker -> column -> value].          *)
(***************************************************************************)
\* the universe of the ranking, in ascending order of identifier
RankAssets == <<"A", "B", "C">>

FactorNames == <<"momentum", "inverse_volatility", "earnings_yield">>

FactorValues == {Rat(-1, 1), Rat(1, 1)}

SeqSet(q) == {q[i] : i \in 1..Len(q)}

PosIn(q, x) == CHOOSE i \in 1..Len(q) : q[i] = x

Min2(x, y) == IF x <= y THEN x ELSE y

\* row.mean(): the NaN entries are skipped; NaN when nothing is left
Mean(row, cols) ==
    LET have == {c \in cols : ~IsNaN(row[c])}
    IN  IF have = {} THEN NaN
        ELSE RDiv(SumSkipNa(row, have), Rat(Cardinality(have), 1))

\* factor_scores.mean(axis=1): over every column the frame has now
RowMeans(df) == [a \in SeqSet(df.index) |-> Mean(df.val[a], SeqSet(df.columns))]

\* factor_scores["combined_score"] = ...: the column is added to the
\* caller's frame, or overwritten when it is there already
SetColumn(df, name, col) ==
    [index   |-> df.index,
     columns |-> IF name \in SeqSet(df.columns) THEN df.columns
                 ELSE Append(df.columns, name),
     val     |-> [a \in SeqSet(df.index) |->
                    [c \in SeqSet(df.columns) \cup {name} |->
                        IF c = name THEN col[a] ELSE df.val[a][c]]]]

\* sort_values("combined_score"), ascending
RECURSIVE SortAsc(_, _, _)
SortAsc(S, key, tie) ==
    IF S = {} THEN <<>>
    ELSE LET a == CHOOSE x \in S : \A y \in S \ {x} :
                      \/ RLess(key[x], key[y])
                      \/ key[y] = key[x] /\ PosIn(tie, x) < PosIn(tie, y)
         IN  <<a>> \o SortAsc(S \ {a}, key, tie)

\* sort_values("combined_score", ascending=False): the larger key first.
\* The default kind, quicksort, promises no order for rows of equal key; on
\* a short column it is an insertion sort, which leaves them in row order
\* (tie).  The row order is an input, so every order of equal keys occurs.
RECURSIVE SortDesc(_, _, _)
SortDesc(S, key, tie) ==
    IF S = {} THEN <<>>
    ELSE LET a == CHOOSE x \in S : \A y \in S \ {x} :
                      \/ RLess(key[y], key[x])
                      \/ key[y] = key[x] /\ PosIn(tie, x) < PosIn(tie, y)
         IN  <<a>> \o SortDesc(S \ {a}, key, tie)

\* ranked.head(top_n)[["combined_score"]]
HeadScores(order, key, n) ==
    [i \in 1..Min2(n, Len(order)) |->
        [asset |-> order[i], combined_score |-> key[order[i]]]]

\* the row orders of a frame over the tickers of q
RowOrders(q) ==
    {p \in [1..Len(q) -> SeqSet(q)] : \A i, j \in 1..Len(q) : i # j => p[i] # p[j]}

RkInit ==
    /\ \E v \in [SeqSet(RankAssets) -> [SeqSet(FactorNames) -> FactorValues]] :
       \E idx \in RowOrders(RankAssets) :
          factor_scores = [index |-> idx, columns |-> FactorNames, val |-> v]
    /\ factor_orig = factor_scores
    /\ top_n \in 1..MaxTopN
    /\ rk_calls = 0
    /\ ranked = Empty
    /\ ranked_first = Empty

\* lines 69-71
RankStocks ==
    /\ rk_calls < MaxCalls
    /\ LET combined == RowMeans(factor_scores)
           order    == SortDesc(SeqSet(factor_scores.index), combined,
                               factor_scores.index)
       IN  /\ factor_scores' = SetColumn(factor_scores, "combined_score", combined)
           /\ ranked' = HeadScores(order, combined, top_n)
           /\ ranked_first' = IF rk_calls = 0 THEN HeadScores(order, combined, top_n)
                              ELSE ranked_first
    /\ rk_calls' = rk_calls + 1
    /\ UNCHANGED <<factor_orig, top_n>>
    /\ UNCHANGED <<bt_vars, opt_vars, fm_vars>>

RkNext == RankStocks

InitRanker == RkInit /\ BtIdle /\ OptIdle /\ FmIdle

SpecRanker == InitRanker /\ [][RkNext]_vars

\* the combined score of the claim: the mean of the asset's factor values
CombinedScore(a) == Mean(factor_orig.val[a], SeqSet(FactorNames))

Universe == SeqSet(factor_orig.index)

ScoreOf == [a \in Universe |-> CombinedScore(a)]

C8_InputUnchanged ==
    rk_calls >= 1 => factor_scores = factor_orig

(***************************************************************************)
(* compute_factors (factor_model.py).                                      *)
(*                                                                         *)
(* The volatility is the root of a rational variance, so the model keeps   *)
(* its square: the column inverse_volatility holds 1/variance, which is    *)
(* NaN, infinite or finite exactly when 1/volatility is.  Of the returned  *)
(* z-scores the model keeps whether each is finite or NaN.                 *)
(***************************************************************************)
FmAssets == {"A", "B"}

PeValues == {NaN, Zero, Rat(-2, 1), Rat(2, 1), Rat(4, 1)}

\* (latest_prices - past_prices) / past_prices, past_prices being
\* price_df.shift(momentum_window).iloc[-1]: NaN without a row that far back
Momentum(p, L) ==
    LET T == Len(p)
    IN  IF T - L < 1 THEN NaN ELSE Rat(p[T] - p[T - L], p[T - L])

\* the variance behind price_df.pct_change().rolling(momentum_window).std().iloc[-1]:
\* NaN unless the last momentum_window rows all hold a return, and for a window of one
RollingVar(p, L) ==
    LET T == Len(p)
        r == [t \in 2..T |-> Rat(p[t] - p[t - 1], p[t - 1])]
        W == (T - L + 1)..T
    IN  IF T < L + 1 \/ L < 2 THEN NaN
        ELSE LET m == RDiv(SumSkipNa(r, W), Rat(L, 1))
                 sq == [t \in W |-> RMul(RSub(r[t], m), RSub(r[t], m))]
             IN  RDiv(SumSkipNa(sq, W), Rat(L - 1, 1))

\* 1 / volatility, squared
InverseVolatility(p, L) == RDiv(One, RollingVar(p, L))

\* 1 / pe_ratio, without the replace
EarningsYieldNoReplace(pe) == RDiv(One, pe)

\* 1 / pe_ratio.replace(0, np.nan)
EarningsYield(pe) == RDiv(One, IF pe = Zero THEN NaN ELSE pe)

\* factor_df.dropna(): the rows with no NaN in them
DropNaRows(df) ==
    LET keep == {a \in DOMAIN df : \A c \in DOMAIN df[a] : ~IsNaN(df[a][c])}
    IN  [a \in keep |-> df[a]]

\* (factor_df - factor_df.mean()) / factor_df.std(): a column is finite when
\* it has at least two rows, all finite and not all equal, and NaN otherwise
Normalized(df) ==
    [a \in DOMAIN df |->
        [c \in SeqSet(FactorNames) |->
            IF /\ Cardinality(DOMAIN df) >= 2
               /\ \A b \in DOMAIN df : IsFinite(df[b][c])
               /\ \E b \in DOMAIN df : df[b][c] # df[a][c]
            THEN "finite" ELSE "NaN"]]

FmInit ==
    /\ \E T \in 2..MaxRows :
       \E sA \in 1..MaxPrice, kA \in 0..(MaxPrice - 1),
          sB \in 1..MaxPrice, kB \in 0..(MaxPrice - 1) :
          fm_prices = [a \in FmAssets |-> [t \in 1..T |->
                          IF a = "A" THEN SeriesPrice(sA, kA, t)
                          ELSE SeriesPrice(sB, kB, t)]]
    /\ fm_pe \in [FmAssets -> PeValues]
    /\ momentum_window \in 1..MaxWindow
    /\ fm_pc = "start"
    /\ factor_df = Empty
    /\ normalized_factors = Empty

\* lines 34-48
RawFactors ==
    /\ fm_pc = "start"
    /\ factor_df' =
           [a \in FmAssets |->
               [c \in SeqSet(FactorNames) |->
                   IF c = "momentum" THEN Momentum(fm_prices[a], momentum_window)
                   ELSE IF c = "inverse_volatility"
                        THEN InverseVolatility(fm_prices[a], momentum_window)
                   ELSE EarningsYield(fm_pe[a])]]
    /\ fm_pc' = "raw"
    /\ UNCHANGED <<fm_prices, fm_pe, momentum_window, normalized_factors>>
    /\ UNCHANGED <<bt_vars, opt_vars, rk_vars>>

\* lines 50-55
DropAndNormalize ==
    /\ fm_pc = "raw"
    /\ factor_df' = DropNaRows(factor_df)
    /\ normalized_factors' = Normalized(DropNaRows(factor_df))
    /\ fm_pc' = "done"
    /\ UNCHANGED <<fm_prices, fm_pe, momentum_window>>
    /\ UNCHANGED <<bt_vars, opt_vars, rk_vars>>

FmNext == RawFactors \/ DropAndNormalize

InitFactors == FmInit /\ BtIdle /\ OptIdle /\ RkIdle

SpecFactors == InitFactors /\ [][FmNext]_vars

\* the asset has the price history the two price factors need
HasPriceFactors(a) ==
    /\ ~IsNaN(Momentum(fm_prices[a], momentum_window))
    /\ ~IsNaN(InverseVolatility(fm_prices[a], momentum_window))

====
